---- MODULE Spec2Model ----
(***************************************************************************)
(* psimpl: imputation of missing feature values in a Percolator PIN file.  *)
(* The model follows psimpl_lib.impute_and_write_pin_file: the detection   *)
(* pass (find_missingVals), the matrix builder                              *)
(* (load_percolator_feature_matrix_with_nas), the regression step          *)
(* (impute_given_original_feature_matrix) and the write pass.              *)
(*                                                                         *)
(* Row and column indices are 0-based as in the source; TLA+ sequences are *)
(* 1-based, so row i of the file is rows[i + 1].  A row is the dictionary  *)
(* csv.DictReader yields: a function from header field to raw string, one  *)
(* value per header field.  Floats are modelled by integers.               *)
(***************************************************************************)
EXTENDS Integers, Sequences, FiniteSets, TLC

\* ------------------------------------------------------------------ bounds
\* Largest number of data rows of an input file.
MaxRows == 3

\* ------------------------------------------------------------- sequences
Range(s) == {s[n] : n \in 1..Len(s)}

NoDuplicates(s) == \A m, n \in 1..Len(s) : s[m] = s[n] => m = n

RECURSIVE SortedSeq(_)
\* The elements of a finite set of integers, ascending.
SortedSeq(S) ==
    IF S = {} THEN <<>>
    ELSE LET m == CHOOSE a \in S : \A b \in S : a <= b
         IN  <<m>> \o SortedSeq(S \ {m})

\* ------------------------------------------------------- raw field values
\* float(s): the strings Python's float() accepts, with their value.
FloatOf ==
    ("0" :> 0) @@ ("1" :> 1) @@ ("2" :> 2) @@ ("3" :> 3) @@ ("4" :> 4) @@ ("5" :> 5)
    @@ ("7" :> 7) @@ ("-1" :> -1)

IsFloat(s) == s \in DOMAIN FloatOf

\* int(s): the strings Python's int() accepts, with their value.
IntOf == ("1" :> 1) @@ ("-1" :> -1) @@ ("2" :> 2) @@ ("0" :> 0) @@ ("3" :> 3) @@ ("7" :> 7)

IsInt(s) == s \in DOMAIN IntOf

\* missing_value_tracker.__init__: the default missing value markers.
missingValueList == {"NA", "na"}

\* ------------------------------------------------------------ input files
\* Headers of the input files considered: the Percolator layout with each
\* accepted synonym, and with one of the expected fields absent.
Headers ==
    { <<"SpecId", "Label", "ScanNr", "featA", "featB", "spectral_contrast_angle", "Peptide", "Proteins">>,
      <<"PSMId", "Label", "ScanNr", "featA", "spectral_contrast_angle", "Peptide", "Proteins">>,
      <<"Label", "ScanNr", "featA", "spectral_contrast_angle", "Peptide", "Proteins">>,
      <<"SpecId", "Label", "ScanNr", "featA", "spectral_contrast_angle", "peptide", "Proteins">>,
      <<"SpecId", "Label", "ScanNr", "featA", "spectral_contrast_angle", "Peptide", "proteinIds">>,
      <<"SpecId", "Label", "ScanNr", "featA", "spectral_contrast_angle", "Peptide", "Protein">>,
      <<"SpecId", "Label", "ScanNr", "featA", "spectral_contrast_angle", "Peptide", "proteinIds", "Protein">>,
      <<"SpecId", "Label", "ScanNr", "featA", "spectral_contrast_angle", "Peptide">>,
      <<"SpecId", "Label", "ScanNr", "featA", "spectral_contrast_angle", "Proteins">>,
      <<"SpecId", "Label", "featA", "spectral_contrast_angle", "Peptide", "Proteins">>,
      <<"SpecId", "Label", "ScanNr", "featA", "featB", "Peptide", "Proteins">>,
      <<"SpecId", "Label", "ScanNr", "spectral_contrast_angle", "Peptide", "Proteins">> }

\* Raw values a Label field takes in the input files considered.
LabelVals == {"1", "-1", "2", "x"}

\* Raw values of the feature fields in the input files considered.
FeatAVals == {"3", "NA", "x"}

FeatBVals == {"0", "na"}

ScaVals == {"2", "NA"}

\* The identifier of data row i.
RowId(i) == "psm" \o ToString(i)

\* The scan number of data row i: every row has its own.
RowScanNr(i) == ToString(i + 1)

\* The DictReader dictionary of data row i of a file with header h.
MkRow(h, i, lab, a, b, s) ==
    [c \in Range(h) |->
        CASE c \in {"SpecId", "PSMId"} -> RowId(i)
          [] c = "Label" -> lab
          [] c = "ScanNr" -> RowScanNr(i)
          [] c = "featA" -> a
          [] c = "featB" -> b
          [] c = "spectral_contrast_angle" -> s
          [] c \in {"peptide", "Peptide"} -> "K.PEPTIDE.R"
          [] OTHER -> "P1"]

\* Output names considered: without, with one and with two .gz extensions.
OutputNames == {"out.pin", "out.pin.gz", "out.pin.gz.gz"}

\* ------------------------------------------------------------------ state
VARIABLES
    header,     \* r.fieldnames of the input file
    rows,       \* the data rows of the input file read so far
    pc,         \* position in impute_and_write_pin_file
    err,        \* the exception or exit code that ended the run, "" if none
    features,   \* na_tracker.features
    feature_mat_indices_psmIds, \* na_tracker.feature_mat_indices_psmIds
    X,          \* the matrix returned by the builder
    row_keys,   \* the feature names returned by the builder
    fit,        \* row and column split of the imputation run
    imputed_vals_per_na_row, \* the dictionary returned by the imputation
    na_feat,    \* the feature the write pass substitutes
    out,        \* the lines written to the output file
    outState,   \* "none", "open" or "closed"
    debug,      \* lengths of the write pass's debugging lists
    outputpin,  \* the outputpin argument of impute_and_write_pin_file
    gzipOutput, \* the gzipOutput argument of impute_and_write_pin_file
    g           \* the output file opened: its name and whether gzip.open opened it

vars == <<header, rows, pc, err, features, feature_mat_indices_psmIds, X, row_keys,
          fit, imputed_vals_per_na_row, na_feat, out, outState, debug,
          outputpin, gzipOutput, g>>

\* ------------------------------------------------- missing_value_tracker
get_missing_cols_set(triples) == {triples[n][2] : n \in 1..Len(triples)}

\* list(set(...)) of small integers: ascending in CPython.
get_missing_cols(triples) == SortedSeq(get_missing_cols_set(triples))

get_missing_rows(triples) == [n \in 1..Len(triples) |-> triples[n][1]]

get_missing_psmIds(triples) == [n \in 1..Len(triples) |-> triples[n][3]]

\* ------------------------------------------------------ find_missingVals
fmv_psmId_field(h) == IF "SpecId" \in Range(h) THEN "SpecId" ELSE "PSMId"

fmv_peptideKey(h) == IF "peptide" \in Range(h) THEN "peptide" ELSE "Peptide"

fmv_proteinKey(h) == IF "proteinIds" \in Range(h) THEN "proteinIds" ELSE "Proteins"

fmv_nonFeatureKeys(h) == {fmv_psmId_field(h), "Label", fmv_peptideKey(h), fmv_proteinKey(h)}

fmv_keys(h) ==
    LET constKeys == fmv_nonFeatureKeys(h)
    IN  SelectSeq(h, LAMBDA c : c \notin constKeys /\ c # "")

\* The two assertions on the header; "" when both hold.
fmv_header_error(h) ==
    IF fmv_peptideKey(h) \notin Range(h) THEN "AssertionError"
    ELSE IF fmv_proteinKey(h) \notin Range(h) THEN "AssertionError"
    ELSE ""

\* What ends the processing of row l: "" when the row is accepted.
fmv_row_error(h, l) ==
    IF fmv_psmId_field(h) \notin DOMAIN l THEN "KeyError"
    ELSE IF ~IsInt(l["Label"]) THEN "exit(-1)"
    ELSE IF IntOf[l["Label"]] \notin {1, -1} THEN "exit(-2)"
    ELSE LET keys == fmv_keys(h)
         IN  IF \E j \in 1..Len(keys) : ~IsFloat(l[keys[j]]) /\ l[keys[j]] \notin missingValueList
             THEN "exit(-3)"
             ELSE ""

\* Columns of row l reached by the feature loop: all of them, or those before
\* the first value that is neither a float nor a marker.
fmv_reached(h, l) ==
    LET keys == fmv_keys(h)
        bad == {j \in 1..Len(keys) : ~IsFloat(l[keys[j]]) /\ l[keys[j]] \notin missingValueList}
    IN  {j \in 1..Len(keys) : \A b \in bad : j < b}

\* The calls of found_missing_value for row i (0-based), in column order.
fmv_row_triples(h, l, i) ==
    LET keys == fmv_keys(h)
        reached == fmv_reached(h, l)
        cells == [j \in 1..Len(keys) |-> <<i, j - 1, l[fmv_psmId_field(h)]>>]
    IN  SelectSeq(cells, LAMBDA t : t[2] + 1 \in reached /\ l[keys[t[2] + 1]] \in missingValueList)

fmv_row_features(h, l) ==
    LET keys == fmv_keys(h)
    IN  {keys[j] : j \in {n \in fmv_reached(h, l) : l[keys[n]] \in missingValueList}}

\* ------------------------------ load_percolator_feature_matrix_with_nas
load_psmId_field(h) == IF "SpecId" \in Range(h) THEN "SpecId" ELSE "PSMId"

load_peptideKey(h) == IF "peptide" \in Range(h) THEN "peptide" ELSE "Peptide"

\* "" when the header has none of the three names (the builder then exits).
load_proteinKey(h) ==
    IF "Protein" \in Range(h) THEN "Protein"
    ELSE IF "Proteins" \in Range(h) THEN "Proteins"
    ELSE IF "proteinIds" \in Range(h) THEN "proteinIds"
    ELSE ""

load_nonFeatureKeys(h) == {load_psmId_field(h), "Label", load_peptideKey(h), load_proteinKey(h)}

load_keys(h) ==
    LET constKeys == load_nonFeatureKeys(h)
    IN  SelectSeq(h, LAMBDA c : c \notin constKeys /\ c # "")

load_header_error(h) ==
    IF load_peptideKey(h) \notin Range(h) THEN "AssertionError"
    ELSE IF load_proteinKey(h) = "" THEN "exit(-1)"
    ELSE ""

\* A cell is the placeholder when its row is among na_rows and its feature
\* among na_features, and the parsed raw value otherwise.
load_forced(i, k, na_rows, na_features) == i \in Range(na_rows) /\ k \in na_features

load_row_error(h, l, i, na_rows, na_features) ==
    IF load_psmId_field(h) \notin DOMAIN l THEN "KeyError"
    ELSE IF ~IsInt(l["Label"]) THEN "exit(-1)"
    ELSE IF IntOf[l["Label"]] \notin {1, -1} THEN "exit(-2)"
    ELSE LET keys == load_keys(h)
         IN  IF \E j \in 1..Len(keys) :
                    ~load_forced(i, keys[j], na_rows, na_features) /\ ~IsFloat(l[keys[j]])
             THEN "exit(-3)"
             ELSE ""

load_el(h, l, i, includeBias, na_rows, na_features) ==
    LET keys == load_keys(h)
    IN  [j \in 1..Len(keys) |->
            IF load_forced(i, keys[j], na_rows, na_features) THEN 0 ELSE FloatOf[l[keys[j]]]]
        \o (IF includeBias THEN <<1>> ELSE <<>>)

\* The exception or exit that ends the builder, "" when it returns.
load_error(h, file, na_rows, na_features) ==
    IF load_header_error(h) # "" THEN load_header_error(h)
    ELSE LET bad == {n \in 1..Len(file) :
                        load_row_error(h, file[n], n - 1, na_rows, na_features) # ""}
             first == CHOOSE n \in bad : \A m \in bad : n <= m
         IN  IF bad = {} THEN ""
             ELSE load_row_error(h, file[first], first - 1, na_rows, na_features)

\* np.array(features): one row per data row, in file order.
load_features(h, file, includeBias, na_rows, na_features) ==
    [n \in 1..Len(file) |-> load_el(h, file[n], n - 1, includeBias, na_rows, na_features)]

\* --------------------------------- impute_given_original_feature_matrix
\* A value predicted by the fitted regressor: determined by the predicted
\* row's input values x and by the target column col.
Prediction(x, col) == [x |-> x, col |-> col]

NoPrediction == [x |-> <<>>, col |-> -1]

\* full_rows without the exclusion of the rows with a missing value.
full_rows_all(nr, na_rows) == SortedSeq(0..(nr - 1))

full_rows(nr, na_rows) == SortedSeq({i \in 0..(nr - 1) : i \notin Range(na_rows)})

\* nonmissing_columns without the exclusion of the columns with a missing value.
nonmissing_columns_all(nc, na_cols) == SortedSeq(0..(nc - 1))

nonmissing_columns(nc, na_cols) == SortedSeq({j \in 0..(nc - 1) : j \notin Range(na_cols)})

\* feature_matrix[np.ix_(rs, cs)]
ix(feature_matrix, rs, cs) ==
    [m \in 1..Len(rs) |-> [c \in 1..Len(cs) |-> feature_matrix[rs[m] + 1][cs[c] + 1]]]

\* nr, nc = feature_matrix.shape fails for the array of an empty list.
impute_shape_error(feature_matrix) == Len(feature_matrix) = 0

\* linr.fit(X, Y) rejects an array with no sample, no input column or no
\* target column; linr.predict(X) rejects an array with no sample.
impute_fit_error(feature_matrix, na_rows, na_cols) ==
    \/ Len(full_rows(Len(feature_matrix), na_rows)) = 0
    \/ Len(nonmissing_columns(Len(feature_matrix[1]), na_cols)) = 0
    \/ Len(na_cols) = 0
    \/ Len(na_rows) = 0

\* linr.predict(X).reshape(-1): row-major over (missing row, missing column).
imputed_vals(feature_matrix, na_rows, na_cols) ==
    LET known == nonmissing_columns(Len(feature_matrix[1]), na_cols)
        testX == ix(feature_matrix, na_rows, known)
    IN  [k \in 1..(Len(na_rows) * Len(na_cols)) |->
            Prediction(testX[((k - 1) \div Len(na_cols)) + 1],
                       na_cols[((k - 1) % Len(na_cols)) + 1])]

\* for i, ind in zip(imputed_vals, missing_rows): imputed_vals_dict[ind] = i
imputed_vals_dict(feature_matrix, na_rows, na_cols) ==
    LET vals == imputed_vals(feature_matrix, na_rows, na_cols)
    IN  [ind \in Range(na_rows) |->
            vals[CHOOSE k \in 1..Len(na_rows) :
                    /\ na_rows[k] = ind
                    /\ \A k2 \in 1..Len(na_rows) : na_rows[k2] = ind => k2 <= k]]

NoFit == [called |-> FALSE, full_rows |-> <<>>, missing_rows |-> <<>>,
          nonmissing_columns |-> <<>>, na_cols |-> <<>>]

\* ---------------------------------------------------------------- actions
NoDebug == [imputed_vals |-> 0, non_imputed_vals |-> 0,
            target_imputed_vals |-> 0, decoy_imputed_vals |-> 0]

\* No output file opened.
NoFile == [name |-> "", gzip |-> FALSE]

\* The state when impute_and_write_pin_file is entered.
Start ==
    /\ rows = <<>>
    /\ pc = "find_missingVals"
    /\ err = ""
    /\ features = {}
    /\ feature_mat_indices_psmIds = <<>>
    /\ X = <<>>
    /\ row_keys = <<>>
    /\ fit = NoFit
    /\ imputed_vals_per_na_row = <<>>
    /\ na_feat = ""
    /\ out = <<>>
    /\ outState = "none"
    /\ debug = NoDebug
    /\ g = NoFile

\* Any of the input files, written to psimpl.pin with gzipOutput at its default.
Init ==
    /\ header \in Headers
    /\ outputpin = "psimpl.pin"
    /\ gzipOutput = TRUE
    /\ Start

\* One input layout, with each output name and each value of gzipOutput.
InitOutput ==
    /\ header = <<"PSMId", "Label", "ScanNr", "featA", "spectral_contrast_angle", "Peptide", "Proteins">>
    /\ outputpin \in OutputNames
    /\ gzipOutput \in BOOLEAN
    /\ Start

\* find_missingVals up to the row loop: the header is read and checked.
FindMissingValsHeader ==
    /\ pc = "find_missingVals"
    /\ IF fmv_header_error(header) # ""
       THEN pc' = "failed" /\ err' = fmv_header_error(header)
       ELSE pc' = "detect" /\ err' = err
    /\ UNCHANGED <<outputpin, gzipOutput, g, header, rows, features, feature_mat_indices_psmIds, X, row_keys,
                   fit, imputed_vals_per_na_row, na_feat, out, outState, debug>>

\* One iteration of the row loop of find_missingVals: the next data row of
\* the file is read and its label and features are checked.
FindMissingValsRow ==
    /\ pc = "detect"
    /\ Len(rows) < MaxRows
    /\ \E lab \in LabelVals, a \in FeatAVals, b \in FeatBVals, s \in ScaVals :
         LET i == Len(rows)
             l == MkRow(header, i, lab, a, b, s)
             e == fmv_row_error(header, l)
         IN  /\ rows' = Append(rows, l)
             /\ IF e \in {"", "exit(-3)"}
                THEN /\ features' = features \cup fmv_row_features(header, l)
                     /\ feature_mat_indices_psmIds' =
                            feature_mat_indices_psmIds \o fmv_row_triples(header, l, i)
                ELSE UNCHANGED <<features, feature_mat_indices_psmIds>>
             /\ IF e # ""
                THEN pc' = "failed" /\ err' = e
                ELSE UNCHANGED <<pc, err>>
    /\ UNCHANGED <<outputpin, gzipOutput, g, header, X, row_keys, fit, imputed_vals_per_na_row, na_feat,
                   out, outState, debug>>

\* The row loop of find_missingVals reaches the end of the file: the tracker
\* is returned.
FindMissingValsReturn ==
    /\ pc = "detect"
    /\ pc' = "load"
    /\ UNCHANGED <<outputpin, gzipOutput, g, header, rows, err, features, feature_mat_indices_psmIds, X, row_keys,
                   fit, imputed_vals_per_na_row, na_feat, out, outState, debug>>

\* load_percolator_feature_matrix_with_nas(pinfile, includeBias = False,
\* na_rows = na_rows, na_features = na_feature_names)
LoadFeatureMatrix ==
    /\ pc = "load"
    /\ LET na_rows == get_missing_rows(feature_mat_indices_psmIds)
           e == load_error(header, rows, na_rows, features)
       IN  IF e # ""
           THEN /\ pc' = "failed" /\ err' = e
                /\ UNCHANGED <<X, row_keys>>
           ELSE /\ pc' = "impute" /\ err' = err
                /\ X' = load_features(header, rows, FALSE, na_rows, features)
                /\ row_keys' = load_keys(header)
    /\ UNCHANGED <<outputpin, gzipOutput, g, header, rows, features, feature_mat_indices_psmIds,
                   fit, imputed_vals_per_na_row, na_feat, out, outState, debug>>

\* impute_given_original_feature_matrix(X, na_rows, na_cols)
Impute ==
    /\ pc = "impute"
    /\ LET na_rows == get_missing_rows(feature_mat_indices_psmIds)
           na_cols == get_missing_cols(feature_mat_indices_psmIds)
       IN  IF impute_shape_error(X)
           THEN /\ pc' = "failed" /\ err' = "ValueError"
                /\ UNCHANGED <<fit, imputed_vals_per_na_row>>
           ELSE /\ fit' = [called |-> TRUE,
                           full_rows |-> full_rows(Len(X), na_rows),
                           missing_rows |-> na_rows,
                           nonmissing_columns |-> nonmissing_columns(Len(X[1]), na_cols),
                           na_cols |-> na_cols]
                /\ IF impute_fit_error(X, na_rows, na_cols)
                   THEN /\ pc' = "failed" /\ err' = "ValueError"
                        /\ UNCHANGED imputed_vals_per_na_row
                   ELSE /\ pc' = "write" /\ err' = err
                        /\ imputed_vals_per_na_row' = imputed_vals_dict(X, na_rows, na_cols)
    /\ UNCHANGED <<outputpin, gzipOutput, g, header, rows, features, feature_mat_indices_psmIds, X, row_keys,
                   na_feat, out, outState, debug>>

\* ----------------------------------- impute_and_write_pin_file, write pass
ref_key == "spectral_contrast_angle"

\* "" when the header has neither name (the write pass then raises).
write_psmId_field(h) ==
    IF "SpecId" \in Range(h) THEN "SpecId"
    ELSE IF "PSMId" \in Range(h) THEN "PSMId"
    ELSE ""

\* "" when the header has neither name (the write pass then exits).
write_p(h) ==
    IF "Protein" \in Range(h) THEN "Protein"
    ELSE IF "Proteins" \in Range(h) THEN "Proteins"
    ELSE ""

write_header_error(h) ==
    IF write_psmId_field(h) = "" THEN "ValueError"
    ELSE IF write_p(h) = "" THEN "exit(-1)"
    ELSE ""

write_nonFeatureKeys(h) == {write_psmId_field(h), "ScanNr", "Label", "Peptide", write_p(h)}

preKeys(h) == <<write_psmId_field(h), "Label", "ScanNr">>

postKeys(h) == <<"Peptide", write_p(h)>>

write_keys(h) ==
    LET constKeys == write_nonFeatureKeys(h)
    IN  SelectSeq(h, LAMBDA c : c \notin constKeys)

\* The fields of an output line, in the order they are written.
write_fields(h) == preKeys(h) \o write_keys(h) \o postKeys(h)

\* "%s" % v for a string v, and for a predicted float v.
Text(s) == [txt |-> s, pred |-> NoPrediction]

FloatText(p) == [txt |-> "", pred |-> p]

\* A line of the output file: the fields written and whether the newline
\* that ends the line was written.
Line(cells, nl) == [cells |-> cells, nl |-> nl]

\* The header line; without feature column keys[-1] raises after preKeys.
write_header_line(h) ==
    LET pre == preKeys(h)
        fields == write_fields(h)
    IN  IF write_keys(h) = <<>>
        THEN Line([n \in 1..Len(pre) |-> Text(pre[n])], FALSE)
        ELSE Line([n \in 1..Len(fields) |-> Text(fields[n])], TRUE)

rows_with_na(triples) == Range(get_missing_rows(triples))

\* The write pass without the substitution: every field passes through.
write_dict_l_unsubstituted(l, i, rwna, naf, imp) == [c \in DOMAIN l |-> Text(l[c])]

\* dict_l after "if i in rows_with_na: dict_l[na_feat] = imputed_vals_per_na_row[i]"
write_dict_l(l, i, rwna, naf, imp) ==
    IF i \in rwna
    THEN [c \in DOMAIN l \cup {naf} |-> IF c = naf THEN FloatText(imp[i]) ELSE Text(l[c])]
    ELSE [c \in DOMAIN l |-> Text(l[c])]

\* The row loop reading the file from its end.
write_enumerate_reversed(file, i) == file[Len(file) - i]

\* for i, dict_l in enumerate(r): the i-th data row (0-based) of the input.
write_enumerate(file, i) == file[i + 1]

\* The debugging block of row i: the exception it raises, "" if none.  It
\* runs before any field of the row is written.
write_debug_error(l, i, rwna, naf) ==
    IF i \in rwna
    THEN IF ref_key \notin DOMAIN l \cup {naf} THEN "KeyError"
         ELSE IF ref_key # naf /\ ~IsFloat(l[ref_key]) THEN "ValueError"
         ELSE IF IntOf[l["Label"]] \notin {1, -1} THEN "exit(-1)"
         ELSE ""
    ELSE IF ~IsFloat(l[naf]) THEN "ValueError"
         ELSE ""

write_debug_lists(d, l, i, rwna, naf) ==
    LET ref_ok == ref_key \in DOMAIN l \cup {naf} /\ (ref_key = naf \/ IsFloat(l[ref_key]))
        y == IntOf[l["Label"]]
    IN  IF i \in rwna
        THEN [d EXCEPT !.imputed_vals = @ + 1,
                       !.target_imputed_vals = IF ref_ok /\ y = 1 THEN @ + 1 ELSE @,
                       !.decoy_imputed_vals = IF ref_ok /\ y = -1 THEN @ + 1 ELSE @]
        ELSE IF IsFloat(l[naf]) THEN [d EXCEPT !.non_imputed_vals = @ + 1]
        ELSE d

\* The fields of row dict_l written before a field absent from dict_l is
\* looked up: all of them when none is absent.
write_reached(h, dict_l) ==
    LET fields == write_fields(h)
        absent == {n \in 1..Len(fields) : fields[n] \notin DOMAIN dict_l}
    IN  {n \in 1..Len(fields) : \A b \in absent : n < b}

write_data_line(h, dict_l) ==
    LET fields == write_fields(h)
        written == Cardinality(write_reached(h, dict_l))
    IN  Line([n \in 1..written |-> dict_l[fields[n]]], written = Len(fields))

\* os.path.splitext(filename)[1] == '.gz', for a name without directory.
ext_is_gz(filename) ==
    Len(filename) > 3 /\ SubSeq(filename, Len(filename) - 2, Len(filename)) = ".gz"

\* outputpin after "if os.path.splitext(outputpin)[1] == '.gz': outputpin = outputpin[:-3]"
write_outputpin(name) ==
    IF ext_is_gz(name) THEN SubSeq(name, 1, Len(name) - 3) ELSE name

\* checkGzip_openfile(filename, 'w'): gzip.open for a .gz name, open otherwise.
checkGzip_openfile(filename) == [name |-> filename, gzip |-> ext_is_gz(filename)]

\* histogram(targets, decoys, ...): min() of an empty list raises.
histogram_error(targets, decoys) == decoys = 0 \/ targets = 0

\* The write pass up to the row loop: the input is reopened, its header is
\* checked, the substituted feature is popped from the tracker's set, the
\* output file is opened and its header line is written.
WriteOpen ==
    /\ pc = "write"
    /\ IF write_header_error(header) # ""
       THEN /\ pc' = "failed" /\ err' = write_header_error(header)
            /\ UNCHANGED <<features, na_feat, out, outState, g>>
       ELSE IF features = {}
       THEN /\ pc' = "failed" /\ err' = "KeyError"
            /\ UNCHANGED <<features, na_feat, out, outState, g>>
       ELSE \E f \in features :
            /\ na_feat' = f
            /\ features' = features \ {f}
            /\ g' = checkGzip_openfile(write_outputpin(outputpin))
            /\ IF g'.gzip
               THEN \* g.write of a str on a file gzip.open opened in binary mode
                    /\ out' = <<>>
                    /\ pc' = "failed" /\ err' = "TypeError" /\ outState' = "closed"
               ELSE /\ out' = <<write_header_line(header)>>
                    /\ IF write_header_line(header).nl
                       THEN pc' = "rows" /\ err' = err /\ outState' = "open"
                       ELSE pc' = "failed" /\ err' = "IndexError" /\ outState' = "closed"
    /\ UNCHANGED <<outputpin, gzipOutput, header, rows, feature_mat_indices_psmIds, X, row_keys,
                   fit, imputed_vals_per_na_row, debug>>

\* One iteration of the row loop of the write pass, for row i = Len(out) - 1.
WriteRow ==
    /\ pc = "rows"
    /\ Len(out) - 1 < Len(rows)
    /\ LET i == Len(out) - 1
           l == write_enumerate(rows, i)
           rwna == rows_with_na(feature_mat_indices_psmIds)
           dict_l == write_dict_l(l, i, rwna, na_feat, imputed_vals_per_na_row)
           e == write_debug_error(l, i, rwna, na_feat)
           line == write_data_line(header, dict_l)
       IN  /\ debug' = write_debug_lists(debug, l, i, rwna, na_feat)
           /\ IF e # ""
              THEN /\ pc' = "failed" /\ err' = e /\ outState' = "closed"
                   /\ out' = out
              ELSE /\ out' = Append(out, line)
                   /\ IF line.nl
                      THEN UNCHANGED <<pc, err, outState>>
                      ELSE pc' = "failed" /\ err' = "KeyError" /\ outState' = "closed"
    /\ UNCHANGED <<outputpin, gzipOutput, g, header, rows, features, feature_mat_indices_psmIds, X, row_keys,
                   fit, imputed_vals_per_na_row, na_feat>>

\* The row loop of the write pass is over: the two histograms are drawn, the
\* output file is closed and the function returns.
WriteFinish ==
    /\ pc = "rows"
    /\ Len(out) - 1 = Len(rows)
    /\ outState' = "closed"
    /\ IF \/ histogram_error(debug.non_imputed_vals, debug.imputed_vals)
          \/ histogram_error(debug.target_imputed_vals, debug.decoy_imputed_vals)
       THEN pc' = "failed" /\ err' = "ValueError"
       ELSE pc' = "done" /\ err' = err
    /\ UNCHANGED <<outputpin, gzipOutput, g, header, rows, features, feature_mat_indices_psmIds, X, row_keys,
                   fit, imputed_vals_per_na_row, na_feat, out, debug>>

Next ==
    \/ FindMissingValsHeader
    \/ FindMissingValsRow
    \/ FindMissingValsReturn
    \/ LoadFeatureMatrix
    \/ Impute
    \/ WriteOpen
    \/ WriteRow
    \/ WriteFinish

Spec == Init /\ [][Next]_vars

SpecOutput == InitOutput /\ [][Next]_vars

\* ----------------------------------------------------------------- claims
\* The cells the detection pass recorded as missing, as (row, column).
MissingCells ==
    {<<feature_mat_indices_psmIds[n][1], feature_mat_indices_psmIds[n][2]>> :
        n \in 1..Len(feature_mat_indices_psmIds)}

\* The builder has returned its matrix.
Built == pc \notin {"find_missingVals", "detect", "load"} /\ row_keys # <<>>

\* The run is over.
Halted == pc \in {"done", "failed"}

\* The field of column k in the output line of data row i (0-based).
OutCell(i, k) ==
    out[i + 2].cells[CHOOSE n \in 1..Len(write_fields(header)) : write_fields(header)[n] = k]

\* The feature columns, as the detection pass sees them.
FeatureCols == 0..(Len(fmv_keys(header)) - 1)

FeatureName(j) == fmv_keys(header)[j + 1]

AllRows == 0..(Len(rows) - 1)

\* C1: when a run completes, the output has exactly one data line per input
\* data row, and line i carries the identifier of input row i.
C1_RowsPreserved ==
    pc = "done" =>
        /\ Len(out) = Len(rows) + 1
        /\ \A i \in AllRows :
              /\ out[i + 2].nl
              /\ Len(out[i + 2].cells) = Len(write_fields(header))
              /\ out[i + 2].cells[1] = Text(rows[i + 1][write_psmId_field(header)])

C1_Witness == pc = "done" /\ Len(rows) >= 3

\* C2: after a completed run, every feature cell the detection pass did not
\* record as missing is written with its original raw value.
C2_NonMissingCellsUnchanged ==
    pc = "done" =>
        \A i \in AllRows, j \in FeatureCols :
            <<i, j>> \notin MissingCells =>
                OutCell(i, FeatureName(j)) = Text(rows[i + 1][FeatureName(j)])

C4_TrackerIndicesUnique ==
    /\ NoDuplicates(get_missing_rows(feature_mat_indices_psmIds))
    /\ NoDuplicates(get_missing_cols(feature_mat_indices_psmIds))

\* The grouping and sequence column of a header: the first accepted name present.
FirstPresent(names, h) ==
    IF \E n \in 1..Len(names) : names[n] \in Range(h)
    THEN names[CHOOSE n \in 1..Len(names) :
                  names[n] \in Range(h) /\ \A m \in 1..(n - 1) : names[m] \notin Range(h)]
    ELSE ""

\* C5: a header with an accepted grouping and sequence name is accepted by the
\* three passes, each resolves the first accepted name present, and the three
\* derive the same feature columns.
C5_PassesResolveAlike ==
    LET grouping == FirstPresent(<<"proteinIds", "Proteins", "Protein">>, header)
        sequence == FirstPresent(<<"peptide", "Peptide">>, header)
    IN  (grouping # "" /\ sequence # "" /\ write_psmId_field(header) # "") =>
            /\ pc # "find_missingVals" =>
                  /\ err # "AssertionError"
                  /\ fmv_proteinKey(header) = grouping
                  /\ fmv_peptideKey(header) = sequence
            /\ Built =>
                  /\ load_proteinKey(header) = grouping
                  /\ load_peptideKey(header) = sequence
                  /\ load_keys(header) = fmv_keys(header)
            /\ (Built /\ pc \notin {"impute", "write"} /\ imputed_vals_per_na_row # <<>>) =>
                  /\ err # "exit(-1)"
                  /\ write_p(header) = grouping
                  /\ write_keys(header) = fmv_keys(header)

\* C6: in the matrix the builder returns, a cell is the 0.0 placeholder
\* exactly when the tracker recorded it, every other cell is the parse of its
\* raw value, and the columns are those of the tracker's indices.
C6_PlaceholderExactlyAtMissingCells ==
    Built =>
        /\ Len(X) = Len(rows)
        /\ \A c \in MissingCells : row_keys[c[2] + 1] = FeatureName(c[2])
        /\ \A i \in AllRows, j \in FeatureCols :
              X[i + 1][j + 1] =
                  IF <<i, j>> \in MissingCells THEN 0
                  ELSE FloatOf[rows[i + 1][FeatureName(j)]]

\* C7: in an imputation run the training rows are all rows but the missing
\* rows, the predicted rows are the missing rows, the input columns are all
\* columns but the missing columns, and no recorded cell is among the training
\* inputs, the training targets or the prediction inputs.
C7_SplitAvoidsMissingCells ==
    fit.called =>
        LET full == Range(fit.full_rows)
            miss == Range(fit.missing_rows)
            known == Range(fit.nonmissing_columns)
            unknown == Range(fit.na_cols)
        IN  /\ miss = {c[1] : c \in MissingCells}
            /\ full = AllRows \ miss
            /\ full \cap miss = {} /\ full \cup miss = 0..(Len(X) - 1)
            /\ unknown = {c[2] : c \in MissingCells}
            /\ known = (0..(Len(X[1]) - 1)) \ unknown
            /\ \A c \in MissingCells :
                  /\ ~(c[1] \in full /\ c[2] \in known)
                  /\ ~(c[1] \in full /\ c[2] \in unknown)
                  /\ ~(c[1] \in miss /\ c[2] \in known)

C7_Witness ==
    /\ fit.called
    /\ pc = "write"
    /\ Len(fit.na_cols) >= 2
    /\ Len(fit.full_rows) >= 1
    /\ ~NoDuplicates(fit.missing_rows)

\* C8: when no row holds a marker, the imputation returns an empty map and the
\* run completes with the input's rows as output.
C8_NoMissingRunCompletes ==
    (Built /\ pc # "impute" /\ Len(rows) > 0 /\ feature_mat_indices_psmIds = <<>>) =>
        /\ pc # "failed"
        /\ imputed_vals_per_na_row = <<>>
        /\ pc = "done" =>
              /\ Len(out) = Len(rows) + 1
              /\ \A i \in AllRows, n \in 1..Len(write_fields(header)) :
                    out[i + 2].cells[n] = Text(rows[i + 1][write_fields(header)[n]])

\* C9: when every row has a missing cell, the imputation fails, returns no
\* map, and the output file is never opened or written.
C9_NoCompleteRowFails ==
    (Built /\ pc # "impute" /\ Len(rows) > 0
        /\ \A i \in AllRows : i \in rows_with_na(feature_mat_indices_psmIds)) =>
        /\ pc = "failed"
        /\ err = "ValueError"
        /\ imputed_vals_per_na_row = <<>>
        /\ outState = "none"
        /\ out = <<>>

C9_Witness ==
    /\ Built /\ pc = "failed" /\ fit.called
    /\ Len(rows) >= 2
    /\ \A i \in AllRows : i \in rows_with_na(feature_mat_indices_psmIds)

\* C10: a run ends with a complete output file (header line and one line per
\* input row) or with no output file created or written.
C10_CompleteOrNoOutput ==
    Halted =>
        \/ outState = "none" /\ out = <<>>
        \/ /\ outState = "closed"
           /\ Len(out) = Len(rows) + 1
           /\ \A n \in 1..Len(out) :
                 out[n].nl /\ Len(out[n].cells) = Len(write_fields(header))

\* C11: for a header with neither SpecId nor PSMId the detection pass fails on
\* the header: no data row is ever read and the detection pass never returns.
C11_NoIdFailsBeforeRows ==
    ("SpecId" \notin Range(header) /\ "PSMId" \notin Range(header)) =>
        /\ rows = <<>>
        /\ pc \in {"find_missingVals", "detect", "failed"}
        /\ pc = "failed" => err \in {"AssertionError", "ValueError"}

\* C13: the map the imputation returns has one entry per incomplete row, and
\* the entry of row r is a prediction computed from row r's own values in the
\* columns without missing value.
C13_OwnRowPrediction ==
    imputed_vals_per_na_row # <<>> =>
        /\ DOMAIN imputed_vals_per_na_row = {c[1] : c \in MissingCells}
        /\ \A r \in DOMAIN imputed_vals_per_na_row :
              imputed_vals_per_na_row[r].x =
                  [c \in 1..Len(fit.nonmissing_columns) |->
                      X[r + 1][fit.nonmissing_columns[c] + 1]]

\* C12: the output file is opened by gzip exactly when gzipOutput is set; with
\* gzipOutput set the name is the one given, and without it a .gz extension is
\* stripped and the file is plain text.
C12_GzipExactlyWhenRequested ==
    g # NoFile =>
        /\ g.gzip = gzipOutput
        /\ gzipOutput => g.name = outputpin
        /\ (~gzipOutput /\ ext_is_gz(outputpin)) =>
              g.name = SubSeq(outputpin, 1, Len(outputpin) - 3) /\ ~g.gzip

====
